---- MODULE Spec2Model ----
(***************************************************************************)
(* A model of mp/conwebsock.py: ConWebsock, the serial-port-like adapter   *)
(* over a websocket.  Two threads share the deque `fifo` under the         *)
(* condition variable `fifo_has_data`: the websocket worker thread, which  *)
(* runs the on_* callbacks, and the caller thread, which runs __init__     *)
(* (authenticate) and then read / wait_for_string.  A text is a sequence   *)
(* of one-character strings; a chunk is one text delivered by on_message.  *)
(* Time is a discrete clock `now`, read by time.time(), that counts half    *)
(* seconds.                                                                *)
(***************************************************************************)
EXTENDS Integers, Sequences, FiniteSets, TLC

\* ------------------------------------------------------------------ bounds
MaxMsgs == 3        \* on_message events in one run

\* --------------------------------------------------------- program constants
\* The clock counts half seconds.
AuthTimeout == 10   \* self.timeout = 5.0
ReadyTimeout == 2   \* self.timeout = 1.0

PasswordPrompt == <<"P","a","s","s","w","o","r","d",":"," ">>
Connected == <<"W","e","b","R","E","P","L"," ","c","o","n","n","e","c","t","e","d">>

\* ------------------------------------------------------------------- inputs
Password == <<"s","e","c","r","e","t">>
WriteData == <<"a","b">>
Marker == <<"m","a","r","k","e","r">>
Sizes == {0, 1, 2}

ChunkAB == <<"a","b">>
ChunkMarkerDE == <<"c",":","m","a","r","k","e","r",":","d","e">>
ChunkMar == <<"c",":","m","a","r">>
ChunkKer == <<"k","e","r","é">>

\* What the server may deliver in one websocket message: while it logs the
\* client in, and once the client is logged in.
LoginChunks == {PasswordPrompt, Connected, ChunkAB}
ReplChunks == {ChunkAB, ChunkMarkerDE, ChunkMar, ChunkKer}

\* ------------------------------------------------------------ pure functions
RECURSIVE Join(_)
\* ''.join(list): the concatenation of a list of texts.
Join(list) == IF list = <<>> THEN <<>> ELSE Head(list) \o Join(Tail(list))

\* `string in data`
In(string, data) ==
    \E i \in 1..(Len(data) - Len(string) + 1) :
        SubSeq(data, i, i + Len(string) - 1) = string

\* data.split(string, 1): the texts before and after the leftmost occurrence.
Split(data, string) ==
    LET i == CHOOSE k \in 1..(Len(data) - Len(string) + 1) :
                 /\ SubSeq(data, k, k + Len(string) - 1) = string
                 /\ \A j \in 1..(k - 1) : SubSeq(data, j, j + Len(string) - 1) # string
    IN  <<SubSeq(data, 1, i - 1), SubSeq(data, i + Len(string), Len(data))>>

\* The Unicode code point of each character the model uses.
CodePoint(c) ==
    CASE c = "P" -> 80  [] c = "a" -> 97  [] c = "s" -> 115 [] c = "w" -> 119
      [] c = "o" -> 111 [] c = "r" -> 114 [] c = "d" -> 100 [] c = ":" -> 58
      [] c = " " -> 32  [] c = "W" -> 87  [] c = "e" -> 101 [] c = "b" -> 98
      [] c = "R" -> 82  [] c = "E" -> 69  [] c = "L" -> 76  [] c = "c" -> 99
      [] c = "n" -> 110 [] c = "t" -> 116 [] c = "m" -> 109 [] c = "k" -> 107
      [] c = "é" -> 233 [] c = "\r" -> 13

RECURSIVE Encode(_)
\* text.encode("utf-8"): one byte below U+0080, two bytes below U+0800.
Encode(text) ==
    IF text = <<>> THEN <<>>
    ELSE LET cp == CodePoint(Head(text))
         IN  (IF cp < 128 THEN <<cp>>
              ELSE <<192 + (cp \div 64), 128 + (cp % 64)>>) \o Encode(Tail(text))

\* Whether sequence p is the beginning of sequence t.
IsPrefix(p, t) == Len(p) <= Len(t) /\ SubSeq(t, 1, Len(p)) = p

\* -------------------------------------------------------------------- state
VARIABLES
    fifo,       \* self.fifo: the chunks received and not yet processed
    timeout,    \* self.timeout (0: not yet set)
    ws,         \* the websocket app: "connecting", "running", "closing", "closed"
    sent,       \* the texts handed to self.ws.send, in order
    now,        \* the clock, time.time()
    pc,         \* where the caller thread is
    blocked,    \* the caller is inside fifo_has_data.wait
    waitUntil,  \* when that wait times out
    tstart,     \* tstart of the call in progress
    string,     \* wait_for_string's argument
    size,       \* read's argument
    data,       \* wait_for_string's local data (a text)
    rdata,      \* read's local data (a list of chunks)
    result,     \* the last finished call: what, how it ended, its argument, the
                \* value returned, from how many chunks, and whether its
                \* deadline had passed
    hist        \* history, read by the properties only

vars == <<fifo, timeout, ws, sent, now, pc, blocked, waitUntil, tstart,
          string, size, data, rdata, result, hist>>

WfsPcs == {"wait_prompt", "wait_connected", "in_wfs"}
CallPcs == WfsPcs \cup {"in_read"}
AuthPcs == {"authenticate", "call_prompt", "wait_prompt", "send",
            "call_connected", "wait_connected", "narrow"}
ReadyPcs == {"ready", "in_read", "in_wfs"}

NoResult == [op |-> "none", how |-> "none", arg |-> 0, value |-> <<>>, n |-> 0, late |-> FALSE]

Hist0 ==
    [arrived |-> <<>>,      \* the chunks on_message delivered during the construction
     nmsgs |-> 0,           \* how many chunks on_message delivered
     pending |-> <<>>,      \* the byte stream: the bytes offered to the reads since the
                            \* last marker wait and not yet returned by one, in order
     inorder |-> TRUE,      \* every read so far returned bytes from the front of it
     taken |-> <<>>,        \* the text the last call, a marker wait, dequeued
     nodata |-> FALSE,      \* the last call began on an empty queue and no chunk came
     woken |-> {},          \* who woke the read in progress out of an empty-queue wait
                            \* since it last dequeued a chunk
     allmid |-> FALSE,      \* every chunk on_message delivered so far came during the
                            \* marker wait in progress or, if no call began since, the
                            \* last one
     steps |-> <<>>,        \* authenticate's events: markers seen, credential sent
     failedAt |-> "none",   \* the step of authenticate that raised
     scene |-> 0]           \* progress of the two-chunk marker scenario

\* __init__ has started the websocket thread and is about to call authenticate.
InitAuth ==
    /\ fifo = <<>>
    /\ timeout = 0
    /\ ws = "connecting"
    /\ sent = <<>>
    /\ now = 0
    /\ pc = "authenticate"
    /\ blocked = FALSE
    /\ waitUntil = 0
    /\ tstart = 0
    /\ string = <<>>
    /\ size = 0
    /\ data = <<>>
    /\ rdata = <<>>
    /\ result = NoResult
    /\ hist = Hist0

\* The object as __init__ returns it when the server sent the two markers and
\* nothing else: the text after "WebREPL connected", which is empty, is the one
\* chunk queued.  The second initial state is the same object after a read(1)
\* has taken that chunk.
Init ==
    /\ fifo \in {<< <<>> >>, <<>>}
    /\ timeout = ReadyTimeout
    /\ ws = "running"
    /\ sent = <<Password \o <<"\r">> >>
    /\ now = 0
    /\ pc = "ready"
    /\ blocked = FALSE
    /\ waitUntil = 0
    /\ tstart = 0
    /\ string = <<>>
    /\ size = 0
    /\ data = <<>>
    /\ rdata = <<>>
    /\ result = IF fifo = <<>>
                THEN [op |-> "read", how |-> "returned", arg |-> 1, value |-> <<>>,
                      n |-> 1, late |-> FALSE]
                ELSE [op |-> "wfs", how |-> "returned", arg |-> Connected,
                      value |-> <<>>, n |-> 0, late |-> FALSE]
    /\ hist = [Hist0 EXCEPT !.steps = <<"prompt", "send", "connected">>,
                            !.taken = Connected]

\* ------------------------------------------------------- pieces of the code
\* remaining_time = self.timeout - (time.time() - tstart)
Remaining(to, t, t0) == to - (t - t0)

TimedOutAtDeadline(remaining_time) == remaining_time <= 0
\* if remaining_time < 0
TimedOut(remaining_time) == remaining_time < 0

WaitForTimeout(remaining_time, to) == to
\* the argument of self.fifo_has_data.wait(...)
WaitFor(remaining_time, to) == remaining_time

PopRight(q) == <<q[Len(q)], SubSeq(q, 1, Len(q) - 1)>>
\* self.fifo.popleft(): the chunk taken and the queue left
PopLeft(q) == <<Head(q), Tail(q)>>

AppendRight(q, x) == Append(q, x)
AppendSecond(q, x) == IF q = <<>> THEN <<x>> ELSE <<Head(q), x>> \o Tail(q)
AppendLeftIfText(q, x) == IF x = <<>> THEN q ELSE <<x>> \o q
\* self.fifo.appendleft(after)
AppendLeft(q, x) == <<x>> \o q

PushFront(q, message) == <<message>> \o q
\* self.fifo.append(message)
Push(q, message) == Append(q, message)

SplitKeepsMarker(d, s) == <<Split(d, s)[1], s \o Split(d, s)[2]>>
\* _, after = data.split(string, 1)
SplitData(d, s) == Split(d, s)

WfsReturnsOnTimeout == "return"
\* wait_for_string at its deadline: raise ConError
WfsOnTimeout == "raise"

RaisePushesBack(q, d) == <<d>> \o q
\* raise ConError: the local `data` goes with the frame, the queue stays as it is
AfterRaise(q, d) == q

LoopTestInclusive(n, sz) == n <= sz
\* while len(data) < size
LoopTest(n, sz) == n < sz

NotifyUnlessRaised(raised) == ~raised
\* close(): try: self.ws.close() / finally: notify_all() -- whether the waiters
\* are notified, the closing of the transport having raised or not
Finally(raised) == TRUE

ReadRaisesOnTimeout == "raise"
\* read at its deadline: break, then return what it has
ReadOnTimeout == "break"

AuthSendFirst(p) ==
    CASE p = "authenticate" -> "send"
      [] p = "send" -> "call_prompt"
      [] p = "call_prompt" -> "wait_prompt"
      [] p = "wait_prompt" -> "call_connected"
      [] p = "call_connected" -> "wait_connected"
      [] p = "wait_connected" -> "narrow"
      [] p = "narrow" -> "ready"
\* The order of authenticate's statements: where the caller goes after p.
AuthSeq(p) ==
    CASE p = "authenticate" -> "call_prompt"
      [] p = "call_prompt" -> "wait_prompt"
      [] p = "wait_prompt" -> "send"
      [] p = "send" -> "call_connected"
      [] p = "call_connected" -> "wait_connected"
      [] p = "wait_connected" -> "narrow"
      [] p = "narrow" -> "ready"

\* What authenticate sends: self.password + "\r"
Credential == Password \o <<"\r">>

\* The name of a marker in the history.
EventOf(s) == IF s = PasswordPrompt THEN "prompt"
              ELSE IF s = Connected THEN "connected" ELSE "marker"

\* data = ...; tstart = time.time(): the history of a call that begins.
Begin(h) == [h EXCEPT !.taken = <<>>, !.nodata = (fifo = <<>>), !.allmid = FALSE]

\* fifo_has_data.notify_all() by `who`: the waiter, if any, leaves the wait.  The
\* history keeps who woke a read that was waiting on an empty queue before its
\* deadline.
\* The name, in the history, of a call of close(): the first one, or one made
\* when the websocket was already closing or closed.
CloseName == IF ws \in {"closing", "closed"} THEN "close_again" ELSE "close"

Woken(h, who) ==
    IF pc = "in_read" /\ blocked /\ fifo = <<>> /\ now < waitUntil
    THEN [h EXCEPT !.woken = @ \cup {who}] ELSE h

\* --------------------------------------------------- the caller: authenticate
\* self.timeout = 5.0
AuthSetTimeout ==
    /\ pc = "authenticate"
    /\ timeout' = AuthTimeout
    /\ pc' = AuthSeq(pc)
    /\ UNCHANGED <<fifo, ws, sent, now, blocked, waitUntil, tstart, string, size,
                   data, rdata, result, hist>>

\* self.wait_for_string("Password: ") / self.wait_for_string("WebREPL connected"):
\* the call and the first statements of wait_for_string.
AuthCall ==
    /\ pc \in {"call_prompt", "call_connected"}
    /\ string' = (IF pc = "call_prompt" THEN PasswordPrompt ELSE Connected)
    /\ data' = <<>>
    /\ tstart' = now
    /\ pc' = AuthSeq(pc)
    /\ hist' = Begin(hist)
    /\ UNCHANGED <<fifo, timeout, ws, sent, now, blocked, waitUntil, size, rdata,
                   result>>

\* self.ws.send(self.password + "\r").  Sending on a websocket that is not open
\* either raises, which ends the construction, or is lost.
AuthSend ==
    /\ pc = "send"
    /\ \/ /\ sent' = Append(sent, Credential)
          /\ pc' = AuthSeq(pc)
          /\ hist' = [hist EXCEPT !.steps = Append(@, "send")]
       \/ /\ ws # "running"
          /\ pc' = "failed"
          /\ hist' = [hist EXCEPT !.failedAt = "send"]
          /\ UNCHANGED sent
    /\ UNCHANGED <<fifo, timeout, ws, now, blocked, waitUntil, tstart, string, size,
                   data, rdata, result>>

\* self.timeout = 1.0, after which __init__ returns the object.
AuthNarrow ==
    /\ pc = "narrow"
    /\ timeout' = ReadyTimeout
    /\ pc' = AuthSeq(pc)
    /\ UNCHANGED <<fifo, ws, sent, now, blocked, waitUntil, tstart, string, size,
                   data, rdata, result, hist>>

\* ------------------------------------------------ the caller: wait_for_string
\* self.fifo_has_data.wait(t): the caller waits until it is notified or t has
\* passed; a wait of no time returns at once.
Wait(t) ==
    /\ blocked' = (t > 0)
    /\ waitUntil' = IF t > 0 THEN now + t ELSE 0

\* Where the caller is after the wait_for_string in progress returns.
AfterWfs == IF pc = "in_wfs" THEN "ready" ELSE AuthSeq(pc)

\* The history of a marker wait that ends: the reads that follow are offered
\* what the queue then holds.
EndWfs(h, q) == [h EXCEPT !.pending = Encode(Join(q))]

\* A call ends: its locals are gone.  The code uses only differences of clock
\* readings, so the origin of the clock is moved to the present.
EndCall ==
    /\ now' = 0
    /\ tstart' = 0
    /\ string' = <<>>
    /\ size' = 0
    /\ data' = <<>>
    /\ rdata' = <<>>

\* raise ConError("Timed out waiting for '%s'" % string)
WfsRaise ==
    /\ pc' = (IF pc = "in_wfs" THEN "ready" ELSE "failed")
    /\ result' = [op |-> "wfs", how |-> "raised", arg |-> string, value |-> <<>>,
                  n |-> 0, late |-> now - tstart > timeout]
    /\ fifo' = AfterRaise(fifo, data)
    /\ hist' = [EndWfs(hist, fifo') EXCEPT
                  !.failedAt = IF pc = "in_wfs" THEN @ ELSE pc,
                  !.scene = 0]
    /\ EndCall
    /\ UNCHANGED <<blocked, waitUntil>>

\* return, the marker having been found in d after `chunk` was taken, `rest`
\* being the queue behind it
WfsReturn(chunk, rest, d) ==
    /\ fifo' = AppendLeft(rest, SplitData(d, string)[2])
    /\ pc' = AfterWfs
    /\ result' = [op |-> "wfs", how |-> "returned", arg |-> string, value |-> <<>>,
                  n |-> 0, late |-> now - tstart > timeout]
    /\ hist' = [EndWfs(hist, fifo') EXCEPT
                  !.taken = @ \o chunk,
                  !.steps = IF pc = "in_wfs" THEN @ ELSE Append(@, EventOf(string)),
                  !.scene = IF @ = 1 THEN 2 ELSE 0]
    /\ EndCall
    /\ UNCHANGED <<blocked, waitUntil>>

\* One pass of wait_for_string's loop, the body of `with self.fifo_has_data`.
WfsStep ==
    /\ pc \in WfsPcs
    /\ ~blocked
    /\ LET remaining_time == Remaining(timeout, now, tstart) IN
       IF TimedOut(remaining_time)
       THEN IF WfsOnTimeout = "raise"
            THEN WfsRaise
            ELSE /\ pc' = AfterWfs
                 /\ result' = [op |-> "wfs", how |-> "returned", arg |-> string,
                               value |-> <<>>, n |-> 0,
                               late |-> now - tstart > timeout]
                 /\ hist' = [EndWfs(hist, fifo) EXCEPT !.scene = 0]
                 /\ EndCall
                 /\ UNCHANGED <<fifo, blocked, waitUntil>>
       ELSE IF fifo # <<>>
       THEN LET chunk == PopLeft(fifo)[1]
                rest == PopLeft(fifo)[2]
                d == data \o chunk
            IN  IF In(string, d)
                THEN WfsReturn(chunk, rest, d)
                ELSE /\ data' = d
                     /\ fifo' = rest
                     /\ hist' = [hist EXCEPT !.taken = @ \o chunk]
                     /\ UNCHANGED <<pc, result, blocked, waitUntil, now, tstart,
                                    string, size, rdata>>
       ELSE /\ Wait(WaitFor(remaining_time, timeout))
            /\ UNCHANGED <<fifo, data, pc, result, hist, now, tstart, string, size,
                           rdata>>
    /\ UNCHANGED <<timeout, ws, sent>>

\* wait_for_string(string), called on the constructed object.
WaitForString ==
    /\ pc = "ready"
    /\ string' = Marker
    /\ data' = <<>>
    /\ tstart' = now
    /\ pc' = "in_wfs"
    /\ hist' = [Begin(hist) EXCEPT
                  !.allmid = (hist.nmsgs = 0),
                  !.scene = IF fifo = <<ChunkAB, ChunkMarkerDE>> THEN 1 ELSE 0]
    /\ UNCHANGED <<fifo, timeout, ws, sent, now, blocked, waitUntil, size, rdata,
                   result>>

\* ----------------------------------------------------------- the caller: read
\* read(size), called on the constructed object: data = []; tstart = time.time()
Read ==
    /\ pc = "ready"
    /\ \E n \in Sizes : size' = n
    /\ rdata' = <<>>
    /\ tstart' = now
    /\ pc' = "in_read"
    /\ hist' = [Begin(hist) EXCEPT
                  !.scene = IF @ = 2 /\ size' = 2 THEN 3 ELSE 0]
    /\ UNCHANGED <<fifo, timeout, ws, sent, now, blocked, waitUntil, string, data,
                   result>>

\* return ''.join(data).encode("utf-8")
ReadReturn ==
    /\ pc' = "ready"
    /\ result' = [op |-> "read", how |-> "returned", arg |-> size,
                  value |-> Encode(Join(rdata)), n |-> Len(rdata),
                  late |-> now - tstart > timeout]
    /\ hist' = [hist EXCEPT
                  !.pending = IF IsPrefix(result'.value, @)
                              THEN SubSeq(@, Len(result'.value) + 1, Len(@)) ELSE @,
                  !.inorder = @ /\ IsPrefix(result'.value, hist.pending),
                  !.woken = {},
                            !.scene = IF @ = 3 THEN 4 ELSE 0]
    /\ EndCall
    /\ UNCHANGED <<fifo, blocked, waitUntil>>

\* One pass of read's loop: the test of `while`, then the body of
\* `with self.fifo_has_data`.
ReadStep ==
    /\ pc = "in_read"
    /\ ~blocked
    /\ IF ~LoopTest(Len(rdata), size)
       THEN ReadReturn
       ELSE LET remaining_time == Remaining(timeout, now, tstart) IN
            IF TimedOut(remaining_time)
            THEN IF ReadOnTimeout = "break"
                 THEN ReadReturn
                 ELSE /\ pc' = "ready"
                      /\ result' = [op |-> "read", how |-> "raised", arg |-> size,
                                    value |-> <<>>, n |-> 0,
                                    late |-> now - tstart > timeout]
                      /\ hist' = [hist EXCEPT !.woken = {}, !.scene = 0]
                      /\ EndCall
                      /\ UNCHANGED <<fifo, blocked, waitUntil>>
            ELSE IF fifo # <<>>
            THEN /\ rdata' = Append(rdata, PopLeft(fifo)[1])
                 /\ fifo' = PopLeft(fifo)[2]
                 /\ hist' = [hist EXCEPT !.woken = {}]
                 /\ UNCHANGED <<pc, result, blocked, waitUntil, now, tstart, string,
                                size, data>>
            ELSE /\ Wait(WaitFor(remaining_time, timeout))
                 /\ UNCHANGED <<fifo, rdata, pc, result, hist, now, tstart, string,
                                size, data>>
    /\ UNCHANGED <<timeout, ws, sent>>

NotifyNone == UNCHANGED <<blocked, waitUntil>>
\* fifo_has_data.notify_all(): the caller, if it is waiting, leaves the wait.
NotifyAll ==
    /\ blocked' = FALSE
    /\ waitUntil' = 0

\* close(), from any thread that holds the object, or from __del__ once the
\* construction has failed: self.ws.close(), which closes the websocket or
\* raises, and in both cases notify_all().
Close ==
    /\ pc \in ReadyPcs \cup {"failed"}
    /\ \E raised \in BOOLEAN :
        /\ ws' = (IF raised \/ ws = "closed" THEN ws ELSE "closing")
        /\ IF Finally(raised) THEN NotifyAll ELSE UNCHANGED <<blocked, waitUntil>>
    /\ hist' = Woken(hist, CloseName)
    /\ UNCHANGED <<fifo, timeout, sent, now, pc, tstart, string, size, data, rdata,
                   result>>

inWaitingBytes == Len(Join(fifo))
\* inWaiting(): return len(self.fifo)
inWaiting == Len(fifo)

\* survives_soft_reset(): return False
survives_soft_reset == FALSE

\* write(data), by the caller between its reads: self.ws.send(data); return
\* len(data).  The model follows one write.
Write ==
    /\ pc = "ready"
    /\ Len(sent) < 2
    /\ sent' = Append(sent, WriteData)
    /\ result' = [op |-> "write", how |-> "returned", arg |-> WriteData,
                  value |-> Len(WriteData), n |-> 0, late |-> FALSE]
    /\ UNCHANGED <<fifo, timeout, ws, now, pc, blocked, waitUntil, tstart, string,
                   size, data, rdata, hist>>

\* ------------------------------------------------------ the websocket thread
\* on_open: the connection is up.
OnOpen ==
    /\ ws = "connecting"
    /\ ws' = "running"
    /\ UNCHANGED <<fifo, timeout, sent, now, pc, blocked, waitUntil, tstart, string,
                   size, data, rdata, result, hist>>

\* on_message(ws, message)
OnMessage ==
    /\ ws = "running"
    /\ hist.nmsgs < MaxMsgs
    /\ \E message \in (IF pc \in ReadyPcs THEN ReplChunks ELSE LoginChunks) :
        /\ fifo' = Push(fifo, message)
        /\ hist' = [hist EXCEPT
                      !.arrived = IF pc \in AuthPcs THEN Append(@, message) ELSE @,
                      !.nmsgs = @ + 1,
                      !.pending = @ \o Encode(message),
                      !.nodata = IF pc \in CallPcs THEN FALSE ELSE @,
                      !.allmid = @ /\ pc \in WfsPcs,
                      !.woken = IF Woken(hist, "on_message") = hist THEN @
                                 ELSE {"on_message"}]
    /\ NotifyAll
    /\ UNCHANGED <<timeout, ws, sent, now, pc, tstart, string, size, data, rdata,
                   result>>

\* on_error(ws, error)
OnError ==
    /\ ws \in {"connecting", "running"}
    /\ NotifyAll
    /\ hist' = Woken(hist, "on_error")
    /\ UNCHANGED <<fifo, timeout, ws, sent, now, pc, tstart, string, size, data,
                   rdata, result>>

\* on_close(ws): run_forever is over.
OnClose ==
    /\ ws # "closed"
    /\ ws' = "closed"
    /\ NotifyAll
    /\ hist' = Woken(hist, "on_close")
    /\ UNCHANGED <<fifo, timeout, sent, now, pc, tstart, string, size, data, rdata,
                   result>>

\* ----------------------------------------------------------------- the clock
\* Time passes while a call is in progress, and a wait returns when its time
\* has passed.  The clock is not followed beyond the pass of the loop that finds
\* the deadline gone.
Tick ==
    /\ pc \in CallPcs
    /\ now - tstart <= timeout
    /\ now' = now + 1
    /\ IF blocked /\ now' >= waitUntil
       THEN blocked' = FALSE /\ waitUntil' = 0
       ELSE UNCHANGED <<blocked, waitUntil>>
    /\ UNCHANGED <<fifo, timeout, ws, sent, pc, tstart, string, size, data, rdata,
                   result, hist>>

\* The constructed object: its caller and the websocket thread.
Next ==
    \/ WfsStep \/ WaitForString \/ Read \/ ReadStep \/ Close
    \/ OnMessage \/ OnError \/ OnClose
    \/ Tick

Spec == Init /\ [][Next]_vars

\* The construction and the first use of the object: authenticate, then the
\* caller's reads and write, the websocket thread, and __del__ if it fails.
NextAuth ==
    \/ AuthSetTimeout \/ AuthCall \/ AuthSend \/ AuthNarrow
    \/ WfsStep \/ Read \/ ReadStep \/ Write \/ Close
    \/ OnOpen \/ OnMessage \/ OnError \/ OnClose
    \/ Tick

SpecAuth == InitAuth /\ [][NextAuth]_vars

\* The caller and the clock keep going: a thread that can run does run, and
\* time does not stop.
SpecLive ==
    /\ Spec
    /\ WF_vars(WfsStep \/ ReadStep)
    /\ WF_vars(Tick)

\* ------------------------------------------------------------ the properties
\* The text that follows the first occurrence of marker m in text t: what is
\* left of t after its shortest beginning that contains m.
AfterFirst(t, m) ==
    LET n == CHOOSE k \in 0..Len(t) :
                 /\ In(m, SubSeq(t, 1, k))
                 /\ \A j \in 0..(k - 1) : ~In(m, SubSeq(t, 1, j))
    IN  SubSeq(t, n + 1, Len(t))

\* The chunks delivered during the construction hold the prompt and, after it,
\* the connected marker.
BothMarkersArrived ==
    /\ In(PasswordPrompt, Join(hist.arrived))
    /\ In(Connected, AfterFirst(Join(hist.arrived), PasswordPrompt))

\* C1: FIFO order. The chunks on_message delivers form one byte stream, and the
\* reads take it from the front: every read returns the next bytes of the
\* stream, and while no marker wait is in progress the bytes not yet returned
\* are the chunks the read in progress holds followed by the chunks queued, in
\* arrival order, wherever the chunk boundaries fall.
C1_FifoOrder ==
    /\ hist.inorder
    /\ pc \notin WfsPcs => hist.pending = Encode(Join(rdata) \o Join(fifo))

\* A read(2) has returned two chunks as one result, the second holding a
\* two-byte character, and a later chunk is still queued.
C1_Witness ==
    /\ pc = "ready" /\ result.op = "read" /\ result.n = 2
    /\ result.value = Encode(ChunkMar \o ChunkKer)
    /\ Len(fifo) = 1 /\ hist.pending = Encode(Head(fifo)) /\ hist.pending # <<>>

\* C2: Marker split. The pass of wait_for_string that, before the deadline,
\* dequeues the chunk completing the marker returns normally, and leaves at the
\* front of the queue, ahead of every chunk not yet dequeued, the text that
\* followed the first occurrence of the marker in what the call dequeued, so
\* that it is what the next read takes first.
C2_MarkerSplit ==
    [][(/\ pc \in WfsPcs
        /\ hist'.taken # hist.taken
        /\ In(string, hist'.taken))
       => (/\ pc' = AfterWfs
           /\ result'.op = "wfs" /\ result'.how = "returned"
           /\ fifo # <<>>
           /\ fifo' = <<AfterFirst(hist'.taken, string)>> \o Tail(fifo)
           /\ hist'.pending = Encode(Join(fifo')))]_vars

\* The marker straddled two chunks; the text after it is at the front of the
\* queue and a later chunk is behind it.
C2_Witness ==
    /\ pc = "ready" /\ result.op = "wfs" /\ result.how = "returned"
    /\ hist.taken = ChunkMar \o ChunkKer
    /\ Len(fifo) >= 2 /\ Head(fifo) = <<"é">>

\* C3, as stated: with "ab" and "c:marker:de" queued, wait_for_string("marker")
\* returns and the read(2) that follows, taking what it finds queued, returns
\* exactly "de".
C3_ReadReturnsDE ==
    hist.scene = 4 /\ result.n >= 1 => result.value = Encode(<<"d","e">>)

\* C3, amended: with "ab" and "c:marker:de" queued, wait_for_string("marker")
\* returns having dequeued both chunks and pushed ":de" back to the front of the
\* queue; the read(2) that follows, if it dequeues anything before its deadline,
\* returns a result that begins with ":de", and exactly ":de" when it got no
\* second chunk.
C3_ReadReturnsColonDE ==
    /\ hist.scene = 2 =>
          /\ pc = "ready"
          /\ hist.taken = ChunkAB \o ChunkMarkerDE
          /\ fifo # <<>> /\ Head(fifo) = <<":","d","e">>
    /\ hist.scene = 4 =>
          /\ result.op = "read" /\ result.how = "returned"
          /\ result.n = 0 => result.late /\ result.value = <<>>
          /\ result.n >= 1 => IsPrefix(Encode(<<":","d","e">>), result.value)
          /\ result.n = 1 => result.value = Encode(<<":","d","e">>)

\* The read(2) of the scenario has returned, from the pushed-back text alone.
C3_Witness == hist.scene = 4 /\ result.n = 1

\* C4: Close wakes waiters. A read that close() woke out of its wait on an empty
\* queue, before its deadline, returns: it does not go back to waiting for the
\* rest of its timeout.
C4_CloseEndsRead ==
    ~(/\ pc = "in_read" /\ blocked
      /\ "close" \in hist.woken /\ ws = "closing")

\* C5: Handshake ordering. The credential is sent once, and only after the
\* prompt has arrived; the construction succeeds only after the prompt was seen,
\* then the credential sent, then the connected marker seen in the data after
\* the prompt; the timeout is 5 during both marker waits and 1 once ready.
C5_HandshakeOrder ==
    /\ sent # <<>> =>
          /\ Head(sent) = Password \o <<"\r">>
          /\ pc \in AuthPcs \cup {"failed"} => Len(sent) = 1
          /\ \A i \in 2..Len(sent) : sent[i] = WriteData
          /\ In(PasswordPrompt, Join(hist.arrived))
    /\ pc \in {"narrow", "ready"} =>
          /\ hist.steps = <<"prompt", "send", "connected">>
          /\ sent # <<>>
          /\ BothMarkersArrived
    /\ pc \in {"wait_prompt", "wait_connected"} => timeout = 2 * 5
    /\ pc = "ready" => timeout = 2 * 1

\* The construction has succeeded, the server having sent the two markers only.
C5_Witness ==
    /\ pc = "ready" /\ timeout = 2 * 1 /\ ws = "running"
    /\ hist.arrived = <<PasswordPrompt, Connected>>
    /\ fifo = << <<>> >>
    /\ sent = << Password \o <<"\r">> >>

\* C6: Handshake failure. A marker wait of authenticate that times out fails
\* the construction: the caller never goes on, the timeout is never narrowed to
\* 1, and if it was the wait for the prompt the credential is never sent.  No
\* step of authenticate is passed without the markers before it having arrived.
C6_HandshakeFailure ==
    /\ result.op = "wfs" /\ result.how = "raised" =>
          /\ pc = "failed"
          /\ hist.failedAt \in {"wait_prompt", "wait_connected"}
    /\ hist.failedAt # "none" => pc = "failed" /\ timeout = AuthTimeout
    /\ hist.failedAt = "wait_prompt" => sent = <<>>
    /\ pc \in {"send", "call_connected", "wait_connected"} =>
          In(PasswordPrompt, Join(hist.arrived))
    /\ pc \in {"narrow", "ready"} => BothMarkersArrived

\* The wait for the connected marker timed out although chunks arrived.
C6_Witness ==
    /\ pc = "failed" /\ hist.failedAt = "wait_connected"
    /\ Len(hist.arrived) >= 2 /\ sent # <<>>

\* C7: Timeout short-read. read never raises; it returns fewer chunks than asked
\* for only once its deadline has passed; and a read that began on an empty
\* queue and got no chunk returns the empty result.
C7_ShortRead ==
    result.op = "read" =>
        /\ result.how = "returned"
        /\ result.n < result.arg => result.late
        /\ pc = "ready" /\ hist.nodata => result.value = <<>> /\ result.n = 0

\* A read(2) has returned one chunk of data at its deadline.
C7_Witness ==
    /\ pc = "ready" /\ result.op = "read" /\ result.arg = 2
    /\ result.n = 1 /\ result.value # <<>> /\ result.late

\* C8: Marker timeout. wait_for_string raises only once its deadline has
\* passed, and then the marker is not in what it dequeued; it returns normally
\* only if the marker is in what it dequeued.
C8_MarkerTimeout ==
    result.op = "wfs" /\ pc = "ready" =>
        /\ result.how \in {"raised", "returned"}
        /\ result.how = "raised" => result.late /\ ~In(result.arg, hist.taken)
        /\ result.how = "returned" => In(result.arg, hist.taken)

\* wait_for_string has raised after dequeuing chunks without the marker.
C8_Witness ==
    /\ pc = "ready" /\ result.op = "wfs" /\ result.how = "raised"
    /\ hist.taken # <<>> /\ hist.nmsgs >= 2

\* C9: Bounded suspension. Whenever the caller is in the monitor wait, that wait
\* ends at call start + timeout, whatever woke it before, and the clock has not
\* reached that time.  A call in progress is never stuck: its caller can run or
\* the clock can advance; and the pass of the loop made after the deadline ends
\* the call, by a return or a raise.
C9_BoundedSuspension ==
    /\ [](blocked => /\ pc \in CallPcs
                     /\ waitUntil = tstart + timeout
                     /\ now < tstart + timeout)
    /\ [](pc \in CallPcs => ~blocked \/ ENABLED Tick)
    /\ [][(WfsStep \/ ReadStep) /\ now - tstart > timeout
            => pc' \notin CallPcs /\ ~blocked']_vars

\* Every call of read and of wait_for_string ends, when the caller and the clock
\* keep going.
C9_Terminates == (pc \in CallPcs) ~> (pc \notin CallPcs)

\* The caller waits again, later than its call began, after a wake-up that did
\* not end the call.
C9_Witness ==
    /\ blocked /\ pc = "in_read" /\ now > tstart
    /\ hist.woken # {}

\* C10: Error and close events end a blocked read early. A read that on_error or
\* on_close woke out of its wait on an empty queue, before its deadline, returns
\* early: it does not go back to waiting for the rest of its timeout.
C10_EventEndsRead ==
    ~(/\ pc = "in_read" /\ blocked
      /\ hist.woken \cap {"on_error", "on_close"} # {})

\* C11: bytes_waiting. inWaiting() is the number of chunks in the queue, whatever
\* their lengths; and as long as no read and no marker wait has been called, it
\* is the number of chunks on_message has pushed.
C11_BytesWaiting ==
    /\ inWaiting = Cardinality(DOMAIN fifo)
    /\ pc \in {"authenticate", "call_prompt"} => inWaiting = hist.nmsgs

\* Two chunks of different lengths were pushed before the first marker wait.
C11_Witness ==
    /\ pc = "call_prompt" /\ hist.nmsgs = 2 /\ inWaiting = 2
    /\ Len(fifo[1]) # Len(fifo[2])

\* C12: close() is idempotent. Every call of close() leaves the queue and the
\* caller's call in progress as they are and leaves no caller in the monitor
\* wait, whether closing the websocket raised or not; a call made when the
\* websocket is already closing or closed changes nothing else either: the
\* websocket stays as the first call left it.
C12_CloseIdempotent ==
    [][Close => /\ fifo' = fifo
                /\ ~blocked'
                /\ <<timeout, sent, pc, data, rdata, result>>' =
                       <<timeout, sent, pc, data, rdata, result>>
                /\ ws' \in {ws, "closing"}
                /\ ws \in {"closing", "closed"} => ws' = ws]_vars

\* A second close() has woken a read that was waiting on the closed connection.
C12_Witness ==
    /\ pc = "in_read" /\ ws = "closing"
    /\ "close_again" \in hist.woken

\* C13: Queue ownership and frame. A step that changes the queue is on_message
\* adding one chunk at the back, or a pass of read or wait_for_string removing
\* the front chunk, or the returning pass of wait_for_string replacing the front
\* chunk by the text after the marker; on_open, on_error, on_close, close and
\* write leave the queue as it is.  (inWaiting and survives_soft_reset are
\* functions of the state and change nothing.)
C13_QueueFrame ==
    [][/\ fifo' # fifo =>
            \/ OnMessage /\ fifo' = Append(fifo, fifo'[Len(fifo')])
            \/ (ReadStep \/ WfsStep) /\ fifo # <<>> /\ fifo' = Tail(fifo)
            \/ /\ WfsStep /\ fifo # <<>>
               /\ pc' \notin WfsPcs /\ result'.how = "returned"
               /\ fifo' = <<AfterFirst(hist'.taken, string)>> \o Tail(fifo)
       /\ (OnOpen \/ OnError \/ OnClose \/ Close \/ Write) => fifo' = fifo]_vars

\* The object was constructed, a chunk came behind the text pushed back, the
\* caller has written and the object was closed.
C13_Witness ==
    /\ hist.steps = <<"prompt", "send", "connected">>
    /\ Len(sent) = 2 /\ ws = "closing" /\ Len(fifo) = 2

\* C14: No lost wake-up. The caller is never in the monitor wait while the queue
\* holds a chunk.
C14_NoLostWakeup == blocked => fifo = <<>>

\* on_message has woken a read out of its wait on the empty queue; the read has
\* not run since and the chunk is queued.
C14_Witness ==
    /\ pc = "in_read" /\ "on_message" \in hist.woken
    /\ ~blocked /\ fifo # <<>> /\ now < tstart + timeout

\* C15: Atomic push-back. Between two passes of wait_for_string the text it
\* holds never contains the marker: the chunk completing the marker is dequeued
\* and the remainder pushed back in one pass.  From the return of the wait until
\* the next call, the remainder is the front of the queue, whatever arrived
\* during the wait or since.
C15_AtomicPushBack ==
    /\ pc \in WfsPcs => ~In(string, data)
    /\ pc = "ready" /\ result.op = "wfs" /\ result.how = "returned" =>
          /\ fifo # <<>>
          /\ Head(fifo) = AfterFirst(hist.taken, result.arg)

\* All three chunks came during the marker wait; the first two held the marker,
\* and the third is behind the remainder.
C15_Witness ==
    /\ pc = "ready" /\ result.op = "wfs" /\ result.how = "returned"
    /\ hist.allmid /\ hist.nmsgs = 3 /\ hist.taken = ChunkMar \o ChunkKer
    /\ Len(fifo) = 2 /\ Head(fifo) = <<"é">>

\* C16, as stated: the result of read(size) is never longer than size bytes.
C16_AtMostSizeBytes ==
    result.op = "read" => Len(result.value) <= result.arg

\* C17: read(size) counts chunks. A read holds at most size chunks, and waits
\* only while it holds fewer; the pass that finds size chunks held returns them,
\* whatever the clock says, and leaves the queue as it is; a read of size <= 0
\* never dequeues and never waits, and returns the empty result.
C17_CountsChunks ==
    /\ [](pc = "in_read" => /\ Len(rdata) <= size \/ (size < 0 /\ rdata = <<>>)
                            /\ blocked => Len(rdata) < size
                            /\ size <= 0 => ~blocked /\ rdata = <<>>)
    /\ [](result.op = "read" =>
             /\ result.n <= result.arg \/ (result.arg < 0 /\ result.n = 0)
             /\ result.arg <= 0 => result.n = 0 /\ result.value = <<>>)
    /\ [][ReadStep /\ Len(rdata) >= size
            => /\ pc' = "ready" /\ fifo' = fifo
               /\ result'.n = Len(rdata)
               /\ result'.value = Encode(Join(rdata))]_vars

\* A read(1) has returned one chunk before its deadline and left the next one
\* queued.
C17_Witness ==
    /\ pc = "ready" /\ result.op = "read" /\ result.arg = 1 /\ result.n = 1
    /\ ~result.late /\ result.value # <<>> /\ fifo # <<>>

\* C18: Data loss on marker timeout. During a marker wait the stream offered to
\* the reads is the text the wait has dequeued followed by the queue; the pass
\* that raises leaves the queue as it is and pushes nothing back, so that what
\* is offered to the later reads is the queue alone, without the text dequeued.
C18_DataLossOnTimeout ==
    /\ [](pc \in WfsPcs => /\ hist.taken = data
                            /\ hist.pending = Encode(data \o Join(fifo)))
    /\ [][(pc \in WfsPcs) /\ pc' \notin WfsPcs /\ result'.how = "raised"
            => /\ fifo' = fifo
               /\ hist'.taken = data
               /\ hist'.pending = Encode(Join(fifo))]_vars
    /\ [](pc = "ready" /\ result.op = "wfs" /\ result.how = "raised"
             => hist.inorder /\ hist.pending = Encode(Join(fifo)))

\* wait_for_string has raised after dequeuing text, and a chunk that came after
\* it is queued.
C18_Witness ==
    /\ pc = "ready" /\ result.op = "wfs" /\ result.how = "raised"
    /\ hist.taken # <<>> /\ fifo # <<>>

\* C19: Push-back is unconditional. The returning pass of wait_for_string
\* replaces the chunk it dequeued by exactly one chunk, so that the queue is not
\* empty from its return until the next call; the read(1) that follows never
\* waits, and if the chunk pushed back is empty it returns the empty result,
\* from that one chunk unless its deadline had passed before it ran.
C19_PushBackUnconditional ==
    /\ [](result.op = "wfs" /\ result.how = "returned" /\ pc \notin CallPcs
             => inWaiting >= 1)
    /\ [][(pc \in WfsPcs) /\ pc' \notin WfsPcs /\ result'.how = "returned"
            => /\ fifo # <<>>
               /\ Len(fifo') = Len(fifo) /\ Tail(fifo') = Tail(fifo)]_vars
    /\ [](pc = "in_read" /\ result.op = "wfs" /\ result.how = "returned" /\ size = 1
             => ~blocked /\ (rdata = <<>> => fifo # <<>>))
    /\ [][(/\ pc = "in_read" /\ result.op = "wfs" /\ result.how = "returned"
           /\ size = 1 /\ pc' = "ready"
           /\ rdata \o fifo # <<>> /\ Head(rdata \o fifo) = <<>>)
            => /\ result'.op = "read" /\ result'.value = <<>>
               /\ result'.n = 1 \/ result'.late]_vars

\* The server sent the two markers only; the first read(1) on the constructed
\* object has returned the empty result from the empty chunk, before its
\* deadline.
C19_Witness ==
    /\ pc = "ready" /\ hist.arrived = <<PasswordPrompt, Connected>>
    /\ result.op = "read" /\ result.arg = 1 /\ result.n = 1
    /\ result.value = <<>> /\ ~result.late

====
